---- MODULE Spec2Model ----
(***************************************************************************)
(* Authenticated request layer of the Google Sheets MCP server             *)
(* (src/main.py): the Nango credential provider, the process-wide access   *)
(* token cache, make_api_request with its single 401 refresh-and-retry,    *)
(* the status-to-exception mapping, and the tool boundary of the endpoint  *)
(* wrappers and utility tools.  Callers are threads of the host runtime;   *)
(* every read or write of the module global _cached_access_token and every *)
(* blocking network call is a step of its own.                             *)
(***************************************************************************)
EXTENDS Integers, Sequences, FiniteSets, TLC

\* ------------------------------------------------------------------ bounds
\* Number of concurrent callers the host runtime dispatches.
NumCallers == 2
\* Number of distinct access tokens the broker hands out before it stops
\* rotating its upstream token.
MaxTokens == 2

Callers == 1..NumCallers

\* ------------------------------------------------------- values of Python
\* None in the token slot and in token-valued locals.
None == 0 - 1
\* The empty string "" as an access token.
EmptyStr == 0
\* Access tokens proper: the n-th token the broker has issued.
Tokens == 1..MaxTokens
\* status_code=None of an exception raised without an HTTP status.
NoStatus == 0

\* Python truthiness of a token-valued expression (None and "" are falsy).
Truthy(v) == v \notin {None, EmptyStr}

\* ------------------------------------------- get_connection_credentials
required_vars ==
    <<"NANGO_CONNECTION_ID", "NANGO_INTEGRATION_ID", "NANGO_BASE_URL", "NANGO_SECRET_KEY">>

RequiredSet == {required_vars[i] : i \in DOMAIN required_vars}

IsSet(v, environ) == v \in environ

\* The comprehension of line 68 with its "not" dropped.
missing_vars_inverted(environ) == SelectSeq(required_vars, LAMBDA v : IsSet(v, environ))

\* missing_vars = [var for var in required_vars if not os.environ.get(var)]
missing_vars(environ) == SelectSeq(required_vars, LAMBDA v : ~IsSet(v, environ))

\* What the broker exchange can end in: the exceptions of requests.get /
\* raise_for_status / response.json(), or a JSON body of one of these shapes.
BrokerFailures ==
    {"timeout", "connection_error", "http_401", "http_404", "http_500", "invalid_json"}

BodyShapes ==
    {"not_an_object", "no_credentials", "credentials_null", "credentials_not_object",
     "no_access_token", "empty_access_token", "access_token"}

BrokerOutcomes == BrokerFailures \cup BodyShapes

NoBody == [shape |-> "none", token |-> None]

\* get_connection_credentials whose except clauses of lines 89-101 raise the
\* base API error instead of AuthenticationError.
BrokerFailureAsAPIError(environ, outcome, token) ==
    IF missing_vars(environ) # <<>>
    THEN [exc |-> "AuthenticationError", missing |-> missing_vars(environ),
          network |-> 0, body |-> NoBody]
    ELSE IF outcome \in BrokerFailures
    THEN [exc |-> "GoogleSheetsAPIError", missing |-> <<>>,
          network |-> 1, body |-> NoBody]
    ELSE [exc |-> "none", missing |-> <<>>, network |-> 1,
          body |-> [shape |-> outcome,
                    token |-> IF outcome = "access_token" THEN token ELSE None]]

\* The provider's result for one call: exc is the exception class raised
\* ("none" when it returns), missing the names listed in the message,
\* network the number of GETs sent to the broker, body the returned JSON.
get_connection_credentials(environ, outcome, token) ==
    IF missing_vars(environ) # <<>>
    THEN [exc |-> "AuthenticationError", missing |-> missing_vars(environ),
          network |-> 0, body |-> NoBody]
    ELSE IF outcome \in BrokerFailures
    THEN [exc |-> "AuthenticationError", missing |-> <<>>,
          network |-> 1, body |-> NoBody]
    ELSE [exc |-> "none", missing |-> <<>>, network |-> 1,
          body |-> [shape |-> outcome,
                    token |-> IF outcome = "access_token" THEN token ELSE None]]

\* credentials.get("credentials", {}).get("access_token") of line 109:
\* exc is "AttributeError" when .get is applied to a non-dict.
ExtractAccessToken(body) ==
    CASE body.shape \in {"not_an_object", "credentials_null", "credentials_not_object"}
            -> [exc |-> "AttributeError", value |-> None]
      [] body.shape \in {"no_credentials", "no_access_token"}
            -> [exc |-> "none", value |-> None]
      [] body.shape = "empty_access_token"
            -> [exc |-> "none", value |-> EmptyStr]
      [] OTHER
            -> [exc |-> "none", value |-> body.token]

\* ------------------------------------------------------------ token cache
\* Line 107 written as "if not _cached_access_token".
SlotFalsy(slot) == ~Truthy(slot)

\* line 107: if _cached_access_token is None
SlotEmpty(slot) == slot = None

\* ------------------------------------------------------ _raise_for_status
\* Statuses the target API is made to answer with.
Statuses == {200, 204, 304, 400, 401, 403, 404, 418, 429, 500, 503}

\* requests.Response.ok: raise_for_status() raises only for 400..599.
ResponseOk(status_code) == ~(400 <= status_code /\ status_code < 600)

\* The exception class _raise_for_status raises, "none" when it returns.
RaiseForStatus(status_code) ==
    IF ResponseOk(status_code) THEN "none"
    ELSE CASE status_code = 400 -> "ValidationError"
           [] status_code = 401 -> "AuthenticationError"
           [] status_code = 403 -> "AuthorizationError"
           [] status_code = 404 -> "ResourceNotFoundError"
           [] status_code = 429 -> "QuotaExceededError"
           [] 500 <= status_code /\ status_code < 600 -> "GoogleSheetsAPIError"
           [] OTHER -> "GoogleSheetsAPIError"

\* The classes of the module's own exception hierarchy.
APIErrorKinds ==
    {"GoogleSheetsAPIError", "AuthenticationError", "AuthorizationError",
     "ResourceNotFoundError", "QuotaExceededError", "ValidationError"}

\* ------------------------------------------------------- make_api_request
\* The 401 check applied to the response of every attempt.
RetryAuthEveryAttempt(status_code, retry_auth, sent) ==
    status_code = 401 /\ retry_auth

\* line 270: the 401 check sits between the first and the second
\* requests.request call, so it is evaluated after the first response only.
RetryAuth(status_code, retry_auth, sent) ==
    sent = 1 /\ status_code = 401 /\ retry_auth

\* How the HTTP exchange with the target API can fail below HTTP.
TransportFailures == {"Timeout", "ConnectionError", "RequestException"}

\* The except clauses written like those of get_connection_credentials.
TransportErrorAsAuthentication(failure) == "AuthenticationError"

\* lines 297-302: the exception class raised for a failure below HTTP.
TransportError(failure) ==
    CASE failure = "Timeout" -> "GoogleSheetsAPIError"
      [] failure = "ConnectionError" -> "GoogleSheetsAPIError"
      [] OTHER -> "GoogleSheetsAPIError"

\* response.content of a response of the target API.
Contents == {"empty", "json_object", "json_other", "not_json"}

\* lines 288-295: the value make_api_request returns for a response.
ParseBody(content) ==
    CASE content = "empty" -> "None"
      [] content = "json_object" -> "dict"
      [] content = "json_other" -> "non_dict"
      [] OTHER -> "content_dict"

\* ------------------------------------------------------------- operations
\* Endpoint wrappers that return Model(**response_data).
ModelWrappers ==
    {"spreadsheets_create", "spreadsheets_get", "spreadsheets_batch_update",
     "spreadsheets_get_by_data_filter", "values_get", "values_batch_get",
     "values_batch_update", "values_batch_clear", "developer_metadata_get",
     "developer_metadata_search"}

\* Endpoint wrappers that return make_api_request's value as it is.
RawWrappers ==
    {"values_update", "values_append", "values_clear",
     "values_batch_get_by_data_filter", "values_batch_update_by_data_filter",
     "values_batch_clear_by_data_filter"}

Wrappers == ModelWrappers \cup RawWrappers

\* Wrappers that check value_input_option against 'RAW' / 'USER_ENTERED'.
InputOptionWrappers ==
    {"values_update", "values_append", "values_batch_update",
     "values_batch_update_by_data_filter"}

\* Utility tools: each wraps its body in try / except Exception.
UtilityTools == {"get_server_info", "test_connection", "refresh_nango_token"}

\* Operations the tool runtime exposes to callers.
ExposedOperations == Wrappers \cup UtilityTools

\* Functions of the core that a caller in the process can also invoke.
CoreOperations ==
    {"get_connection_credentials", "get_access_token", "refresh_access_token",
     "make_api_request"}

\* Operations that run make_api_request.
ApiOperations == Wrappers \cup {"make_api_request", "test_connection"}

\* What the caller passes for the wrapper's checked arguments.
ArgCases(op) ==
    IF op \in InputOptionWrappers
    THEN {"valid", "missing_required", "bad_value_input_option"}
    ELSE IF op \in Wrappers THEN {"valid", "missing_required"}
    ELSE {"valid"}

\* The local checks without the test of value_input_option.
ValidateArgsRequiredOnly(op, args) ==
    IF op \in Wrappers /\ args = "missing_required" THEN "ValidationError" ELSE "none"

\* The wrappers' local checks: the exception class raised, "none" if none.
ValidateArgs(op, args) ==
    IF op \in Wrappers /\ args # "valid" THEN "ValidationError" ELSE "none"

\* headers argument of make_api_request: absent, a dict without an
\* Authorization entry, a dict with one.
HeaderCases(op) ==
    IF op = "make_api_request" THEN {"none", "no_authorization", "authorization"}
    ELSE {"none"}

RetryAuthCases(op) ==
    IF op = "make_api_request" THEN BOOLEAN ELSE {TRUE}

\* Line 251 without its test of the caller's headers.
NeedsTokenAlways(hdrs) == TRUE

\* line 251: not headers or "Authorization" not in headers
NeedsToken(hdrs) == hdrs # "authorization"

\* What the wrapper does with make_api_request's return value:
\* Model(**response_data) raises TypeError unless response_data is a mapping.
WrapResponse(op, data) ==
    IF op \in ModelWrappers \cup {"test_connection"}
    THEN IF data \in {"dict", "content_dict"}
         THEN [exc |-> "none", data |-> "model"]
         ELSE [exc |-> "TypeError", data |-> "none"]
    ELSE [exc |-> "none", data |-> data]

\* ------------------------------------------------------------------ state
VARIABLES
    _cached_access_token,  \* the module global _cached_access_token
    environ,              \* the required variables set to a non-empty value
    brokerToken,          \* the access token the broker currently holds
    fetchedSince,         \* tokens get_access_token obtained from the provider
                          \* since the last invalidation: 0, 1, or 2 for
                          \* more than one (observer)
    clears,               \* invalidations in a row, with no assignment of
                          \* line 109 in between: 0, 1, or 2 for two or
                          \* more (observer)
    callers               \* per caller: the running operation and its frame

vars == <<_cached_access_token, environ, brokerToken, fetchedSince, clears, callers>>

\* refresh_access_token without the assignment of line 119.
InvalidatedSlotKept == _cached_access_token

\* line 119: the value refresh_access_token assigns to the slot.
InvalidatedSlot == None

NoOutcome ==
    [kind |-> "none", status_code |-> NoStatus, token |-> None, data |-> "none",
     missing |-> <<>>]

Returned(token, data) ==
    [kind |-> "return", status_code |-> NoStatus, token |-> token, data |-> data,
     missing |-> <<>>]

Raised(kind, status_code, missing) ==
    [kind |-> kind, status_code |-> status_code, token |-> None, data |-> "none",
     missing |-> missing]

\* A caller that runs no operation.
Idle ==
    [op |-> "none", pc |-> "idle", args |-> "valid", hdrs |-> "none",
     retry_auth |-> TRUE,
     cache_at_call |-> None,        \* the slot when the operation was invoked
     credentials |-> NoBody,        \* local of get_access_token
     access_token |-> None,         \* local of make_api_request
     authorization |-> "none",      \* Authorization header: none, caller, token
     content_type |-> "none",       \* Content-Type header: none, caller,
                                    \* application/json
     sent |-> 0,                    \* requests sent to the target API
     refreshes |-> 0,               \* refresh_access_token calls of line 271
     provider |-> 0,                \* get_connection_credentials invocations
     network |-> 0,                 \* GETs sent to the broker
     statuses |-> <<>>,             \* statuses received from the target API
     exec |-> NoOutcome,            \* how make_api_request ended
     result |-> NoOutcome]          \* what crossed the operation boundary

Init ==
    /\ _cached_access_token = None
    /\ environ \in SUBSET RequiredSet
    /\ brokerToken = 1
    /\ fetchedSince = 0
    /\ clears = 0
    /\ callers = [c \in Callers |-> Idle]

\* ------------------------------------------------- frames and boundaries
Put(c, r) == callers' = [callers EXCEPT ![c] = r]

\* The frame's locals are dropped once the operation has ended.
Ended(r, exec, result) ==
    [r EXCEPT !.pc = "done", !.credentials = NoBody, !.exec = exec,
              !.result = result]

\* An exception leaves the frames of the running operation.  Inside
\* make_api_request it ends that call; the utility tools catch it
\* (except Exception) and return a dict, every other operation lets it out.
Raise(r, kind, status_code, missing) ==
    LET e == Raised(kind, status_code, missing)
        exec == IF r.op \in ApiOperations /\ r.pc # "validate" THEN e ELSE r.exec
    IN  CASE r.op = "get_server_info" ->
                Ended(r, exec, Returned(None, "auth_configured_false"))
          [] r.op \in {"test_connection", "refresh_nango_token"} ->
                Ended(r, exec, Returned(None, "success_false"))
          [] OTHER -> Ended(r, exec, e)

\* make_api_request without line 272: the retry keeps the header of the
\* first attempt.
ReturnTokenStale(r, value) ==
    CASE r.op \in {"get_access_token", "refresh_access_token"} ->
            Ended(r, r.exec, Returned(value, "token"))
      [] r.op = "refresh_nango_token" ->
            Ended(r, r.exec, Returned(None, "success_true"))
      [] r.op = "get_server_info" ->
            Ended(r, r.exec,
                  Returned(None, IF Truthy(value) THEN "auth_configured_true"
                                 ELSE "auth_configured_false"))
      [] r.sent = 0 ->
            [r EXCEPT !.pc = "mar_send", !.access_token = value,
                      !.authorization = "token", !.content_type = "application/json"]
      [] OTHER ->
            [r EXCEPT !.pc = "mar_send"]

\* get_access_token returns value to the frame that called it.
ReturnToken(r, value) ==
    CASE r.op \in {"get_access_token", "refresh_access_token"} ->
            Ended(r, r.exec, Returned(value, "token"))
      [] r.op = "refresh_nango_token" ->
            Ended(r, r.exec, Returned(None, "success_true"))
      [] r.op = "get_server_info" ->
            Ended(r, r.exec,
                  Returned(None, IF Truthy(value) THEN "auth_configured_true"
                                 ELSE "auth_configured_false"))
      [] OTHER ->
            \* lines 252-256 and 271-272: headers["Authorization"] = Bearer <value>
            \* (line 256 sets Content-Type, line 272 does not)
            [r EXCEPT !.pc = "mar_send", !.access_token = value,
                      !.authorization = "token",
                      !.content_type = IF r.sent = 0 THEN "application/json" ELSE @]

\* make_api_request returns data to the operation that called it.
ReturnData(r, data) ==
    LET exec == Returned(None, data)
        w == WrapResponse(r.op, data)
    IN  CASE r.op = "test_connection" ->
                Ended(r, exec,
                      Returned(None, IF w.exc = "none" THEN "success_true"
                                     ELSE "success_false"))
          [] w.exc # "none" -> Ended(r, exec, Raised(w.exc, NoStatus, <<>>))
          [] OTHER -> Ended(r, exec, Returned(None, w.data))

\* ---------------------------------------------------------------- actions
EntryPoint(op) ==
    CASE op = "get_connection_credentials" -> "gcc_call"
      [] op = "get_access_token" -> "gat_check"
      [] op \in {"refresh_access_token", "refresh_nango_token"} -> "rat_clear"
      [] op = "get_server_info" -> "gsi_read"
      [] op = "make_api_request" -> "mar_start"
      [] OTHER -> "validate"

\* A caller invokes one of the operations ops with some arguments.
Call(c, ops) ==
    /\ callers[c].pc = "idle"
    /\ \E op \in ops :
       \E args \in ArgCases(op), hdrs \in HeaderCases(op), retry \in RetryAuthCases(op) :
          Put(c, [Idle EXCEPT !.op = op, !.pc = EntryPoint(op), !.args = args,
                              !.hdrs = hdrs, !.retry_auth = retry,
                              !.cache_at_call = _cached_access_token,
                              !.authorization =
                                  IF hdrs = "authorization" THEN "caller" ELSE "none",
                              !.content_type =
                                  IF hdrs = "none" THEN "none" ELSE "caller"])
    /\ UNCHANGED <<_cached_access_token, environ, brokerToken, fetchedSince, clears>>

\* The wrapper's precondition checks, before it calls make_api_request.
Validate(c) ==
    LET r == callers[c] IN
    /\ r.pc = "validate"
    /\ IF ValidateArgs(r.op, r.args) # "none"
       THEN Put(c, Raise(r, ValidateArgs(r.op, r.args), NoStatus, <<>>))
       ELSE Put(c, [r EXCEPT !.pc = "mar_start"])
    /\ UNCHANGED <<_cached_access_token, environ, brokerToken, fetchedSince, clears>>

\* make_api_request, lines 248-252: take a token unless the caller's
\* headers carry an Authorization entry.
MarStart(c) ==
    LET r == callers[c] IN
    /\ r.pc = "mar_start"
    /\ Put(c, [r EXCEPT !.pc = IF NeedsToken(r.hdrs) THEN "gat_check" ELSE "mar_send"])
    /\ UNCHANGED <<_cached_access_token, environ, brokerToken, fetchedSince, clears>>

\* get_access_token, line 107: read the slot.
GatCheck(c) ==
    LET r == callers[c] IN
    /\ r.pc = "gat_check"
    /\ Put(c, [r EXCEPT !.pc = IF SlotEmpty(_cached_access_token) THEN "gat_fetch"
                               ELSE "gat_return"])
    /\ UNCHANGED <<_cached_access_token, environ, brokerToken, fetchedSince, clears>>

\* The tokens the broker can answer with: the one it holds, or the next one
\* when refresh_token=true makes it renew its upstream token.
BrokerAnswers == {t \in {brokerToken, brokerToken + 1} : t \in Tokens}

\* get_access_token, line 108: the call of get_connection_credentials.
GatFetch(c) ==
    LET r == callers[c] IN
    /\ r.pc = "gat_fetch"
    /\ \E outcome \in BrokerOutcomes, t \in BrokerAnswers :
          LET res == get_connection_credentials(environ, outcome, t)
              q == [r EXCEPT !.provider = @ + 1, !.network = @ + res.network]
          IN  IF res.exc # "none"
              THEN /\ Put(c, Raise(q, res.exc, NoStatus, res.missing))
                   /\ UNCHANGED <<brokerToken, fetchedSince>>
              ELSE /\ Put(c, [q EXCEPT !.pc = "gat_store", !.credentials = res.body])
                   /\ brokerToken' = IF res.body.token = None THEN brokerToken
                                     ELSE res.body.token
                   /\ fetchedSince' = IF res.body.token = None THEN fetchedSince
                                      ELSE IF fetchedSince = 0 THEN 1 ELSE 2
    /\ UNCHANGED <<_cached_access_token, environ, clears>>

\* get_access_token, line 109: extract the token and assign the global.
GatStore(c) ==
    LET r == callers[c]
        x == ExtractAccessToken(r.credentials)
    IN
    /\ r.pc = "gat_store"
    /\ IF x.exc # "none"
       THEN /\ Put(c, Raise(r, x.exc, NoStatus, <<>>))
            /\ UNCHANGED <<_cached_access_token, clears>>
       ELSE /\ Put(c, [r EXCEPT !.pc = "gat_test", !.credentials = NoBody])
            /\ _cached_access_token' = x.value
            /\ clears' = 0
    /\ UNCHANGED <<environ, brokerToken, fetchedSince>>

\* get_access_token, line 111: if not _cached_access_token: raise.
GatTest(c) ==
    LET r == callers[c] IN
    /\ r.pc = "gat_test"
    /\ IF ~Truthy(_cached_access_token)
       THEN Put(c, Raise(r, "AuthenticationError", NoStatus, <<>>))
       ELSE Put(c, [r EXCEPT !.pc = "gat_return"])
    /\ UNCHANGED <<_cached_access_token, environ, brokerToken, fetchedSince, clears>>

\* get_access_token, line 114: return _cached_access_token.
GatReturn(c) ==
    LET r == callers[c] IN
    /\ r.pc = "gat_return"
    /\ Put(c, ReturnToken(r, _cached_access_token))
    /\ UNCHANGED <<_cached_access_token, environ, brokerToken, fetchedSince, clears>>

\* refresh_access_token, line 119: _cached_access_token = None.
RatClear(c) ==
    LET r == callers[c] IN
    /\ r.pc = "rat_clear"
    /\ _cached_access_token' = InvalidatedSlot
    /\ fetchedSince' = 0
    /\ clears' = IF clears = 0 THEN 1 ELSE 2
    /\ Put(c, [r EXCEPT !.pc = "gat_check"])
    /\ UNCHANGED <<environ, brokerToken>>

\* make_api_request, lines 259 and 274: requests.request sends the request.
MarSend(c) ==
    LET r == callers[c] IN
    /\ r.pc = "mar_send"
    /\ Put(c, [r EXCEPT !.pc = "mar_wait", !.sent = @ + 1])
    /\ UNCHANGED <<_cached_access_token, environ, brokerToken, fetchedSince, clears>>

\* make_api_request: requests.request raises (lines 297-302).
MarFail(c) ==
    LET r == callers[c] IN
    /\ r.pc = "mar_wait"
    /\ \E f \in TransportFailures :
          Put(c, Raise(r, TransportError(f), NoStatus, <<>>))
    /\ UNCHANGED <<_cached_access_token, environ, brokerToken, fetchedSince, clears>>

\* make_api_request: a response arrives (lines 270-271 and 285-295).
MarRecv(c) ==
    LET r == callers[c] IN
    /\ r.pc = "mar_wait"
    /\ \E status_code \in Statuses, content \in Contents :
          LET q == [r EXCEPT !.statuses = Append(@, status_code)] IN
          IF RetryAuth(status_code, q.retry_auth, q.sent)
          THEN Put(c, [q EXCEPT !.pc = "rat_clear", !.refreshes = @ + 1])
          ELSE IF RaiseForStatus(status_code) # "none"
          THEN Put(c, Raise(q, RaiseForStatus(status_code), status_code, <<>>))
          ELSE Put(c, ReturnData(q, ParseBody(content)))
    /\ UNCHANGED <<_cached_access_token, environ, brokerToken, fetchedSince, clears>>

\* get_server_info, line 703: _cached_access_token or get_access_token().
GsiRead(c) ==
    LET r == callers[c] IN
    /\ r.pc = "gsi_read"
    /\ IF Truthy(_cached_access_token)
       THEN Put(c, Ended(r, r.exec, Returned(None, "auth_configured_true")))
       ELSE Put(c, [r EXCEPT !.pc = "gat_check"])
    /\ UNCHANGED <<_cached_access_token, environ, brokerToken, fetchedSince, clears>>

\* A direct call of get_connection_credentials.
GccCall(c) ==
    LET r == callers[c] IN
    /\ r.pc = "gcc_call"
    /\ \E outcome \in BrokerOutcomes, t \in BrokerAnswers :
          LET res == get_connection_credentials(environ, outcome, t)
              q == [r EXCEPT !.provider = @ + 1, !.network = @ + res.network]
          IN  /\ IF res.exc # "none"
                 THEN Put(c, Raise(q, res.exc, NoStatus, res.missing))
                 ELSE Put(c, Ended(q, q.exec, Returned(res.body.token, res.body.shape)))
              /\ brokerToken' = IF res.body.token = None THEN brokerToken
                                ELSE res.body.token
    /\ UNCHANGED <<_cached_access_token, environ, fetchedSince, clears>>

\* The caller takes the outcome; it is free to call again.
Finish(c) ==
    /\ callers[c].pc = "done"
    /\ Put(c, Idle)
    /\ UNCHANGED <<_cached_access_token, environ, brokerToken, fetchedSince, clears>>

\* The steps of get_access_token and refresh_access_token.
TokenStep(c) ==
    \/ GatCheck(c)
    \/ GatFetch(c)
    \/ GatStore(c)
    \/ GatTest(c)
    \/ GatReturn(c)
    \/ RatClear(c)

\* The steps of the operations that use them.
Step(c) ==
    \/ TokenStep(c)
    \/ Validate(c)
    \/ MarStart(c)
    \/ MarSend(c)
    \/ MarFail(c)
    \/ MarRecv(c)
    \/ GsiRead(c)
    \/ GccCall(c)
    \/ Finish(c)

\* The operations of the module, one call at a time (a host that runs the
\* tools one after the other).
Next == Call(1, ExposedOperations \cup CoreOperations) \/ Step(1)

Spec == Init /\ [][Next]_vars

\* The operations that only work on the token slot, as a host runs them that
\* dispatches calls concurrently: steps of different callers interleave.
TokenOperations ==
    {"get_access_token", "refresh_access_token", "refresh_nango_token", "get_server_info"}

ConcNext ==
    \E c \in Callers :
        Call(c, TokenOperations) \/ TokenStep(c) \/ GsiRead(c) \/ Finish(c)

ConcSpec == Init /\ [][ConcNext]_vars

\* ----------------------------------------------------------- properties
Names(seq) == {seq[i] : i \in DOMAIN seq}

Last(seq) == seq[Len(seq)]

\* The operation of r has run make_api_request with the default headers
\* and retry_auth, as every endpoint wrapper does.
DefaultCall(r) ==
    r.op \in ApiOperations /\ r.hdrs # "authorization" /\ r.retry_auth

\* The last response received is the one make_api_request classified:
\* no request failed below HTTP and no refresh failed after it.
FinalResponse(r) ==
    /\ r.pc = "done"
    /\ r.sent >= 1
    /\ Len(r.statuses) = r.sent
    /\ r.refreshes = 0 \/ r.sent = 2

\* C1: starting from an empty token cache, a make_api_request call that gets
\* 401 and then 200 succeeds, and get_connection_credentials has been invoked
\* exactly twice in it (the initial token and the one refresh).
C1_RefreshOnceThenSuccess ==
    \A c \in Callers :
        LET r == callers[c] IN
        (r.pc = "done" /\ DefaultCall(r) /\ r.cache_at_call = None
            /\ r.statuses = <<401, 200>>)
        => (r.exec.kind = "return" /\ r.provider = 2 /\ r.network = 2
            /\ r.refreshes = 1 /\ r.sent = 2)

C1_Witness ==
    \E c \in Callers :
        LET r == callers[c] IN
        /\ r.pc = "done" /\ r.op = "make_api_request" /\ DefaultCall(r)
        /\ r.cache_at_call = None /\ r.statuses = <<401, 200>>
        /\ r.exec.kind = "return" /\ r.provider = 2

\* C2: a call that gets 401 twice fails with AuthenticationError (status 401),
\* and no call ever sends more than two requests or refreshes more than once.
C2_NoThirdAttempt ==
    \A c \in Callers :
        LET r == callers[c] IN
        /\ r.sent <= 2
        /\ r.refreshes <= 1
        /\ Len(r.statuses) <= 2
        /\ (r.pc = "done" /\ r.statuses = <<401, 401>>)
            => (r.exec.kind = "AuthenticationError" /\ r.exec.status_code = 401
                /\ r.sent = 2 /\ r.refreshes = 1)

C2_Witness ==
    \E c \in Callers :
        LET r == callers[c] IN
        /\ r.pc = "done" /\ r.statuses = <<401, 401>>
        /\ r.exec.kind = "AuthenticationError" /\ r.sent = 2

\* The error class the taxonomy names for a status that is not 2xx.
ClaimedKind(status_code) ==
    CASE status_code = 400 -> "ValidationError"
      [] status_code = 401 -> "AuthenticationError"
      [] status_code = 403 -> "AuthorizationError"
      [] status_code = 404 -> "ResourceNotFoundError"
      [] status_code = 429 -> "QuotaExceededError"
      [] OTHER -> "GoogleSheetsAPIError"

Is2xx(status_code) == 200 <= status_code /\ status_code < 300

\* C3: a final status that is not 2xx makes the call fail with the error of
\* the taxonomy (400 ValidationError, 401 AuthenticationError, 403
\* AuthorizationError, 404 ResourceNotFoundError, 429 QuotaExceededError, any
\* other non-2xx the base GoogleSheetsAPIError) carrying that status; a 2xx
\* status never produces an error.
C3_StatusTaxonomy ==
    \A c \in Callers :
        LET r == callers[c] IN
        FinalResponse(r) =>
            IF Is2xx(Last(r.statuses))
            THEN r.exec.kind = "return"
            ELSE /\ r.exec.kind = ClaimedKind(Last(r.statuses))
                 /\ r.exec.status_code = Last(r.statuses)

\* The part of C3 the code does implement: the statuses 400..599.
StatusTaxonomyOnErrorStatuses ==
    \A c \in Callers :
        LET r == callers[c] IN
        (FinalResponse(r) /\ ~ResponseOk(Last(r.statuses))) =>
            /\ r.exec.kind = ClaimedKind(Last(r.statuses))
            /\ r.exec.status_code = Last(r.statuses)

\* C4: when a non-empty set M of the four required variables is missing,
\* get_connection_credentials raises AuthenticationError whose message names
\* exactly the members of M, and no request is sent to the broker.
C4_MissingConfiguration ==
    \A c \in Callers :
        LET r == callers[c]
            M == RequiredSet \ environ
        IN  (M # {} /\ r.provider >= 1) =>
                /\ r.network = 0
                /\ r.pc = "done"
                /\ r.op \notin UtilityTools =>
                      /\ r.result.kind = "AuthenticationError"
                      /\ Names(r.result.missing) = M
                      /\ Len(r.result.missing) = Cardinality(M)

C4_Witness ==
    \E c \in Callers :
        LET r == callers[c] IN
        /\ r.op = "get_connection_credentials" /\ r.pc = "done"
        /\ r.provider = 1 /\ r.network = 0
        /\ r.result.kind = "AuthenticationError"
        /\ Names(r.result.missing) = {"NANGO_INTEGRATION_ID", "NANGO_SECRET_KEY"}

\* The caller holds an answer of the provider that line 109 has not stored yet.
InFetch(r) == r.pc = "gat_store"

\* C5: with concurrent callers a fetched token is not fetched again: without
\* an invalidation the provider hands get_access_token at most one token, and
\* no two callers are at the same time between the provider call of line 108
\* and the store of line 109 (their check-fetch-store sequences do not
\* interleave).
C5_NoRedundantFetch ==
    /\ fetchedSince <= 1
    /\ \A a, b \in Callers : (a # b /\ InFetch(callers[a])) => ~InFetch(callers[b])

\* C6: the token in the slot is never replaced by one the broker issued
\* earlier; the slot only goes back by being cleared.
C6_NoStaleOverwrite ==
    [][(_cached_access_token \in Tokens /\ _cached_access_token' \in Tokens)
          => _cached_access_token' >= _cached_access_token]_vars

\* The state of the per-call machine of make_api_request.
Phase(r) ==
    IF r.op \notin ApiOperations \/ r.pc \in {"idle", "validate"}
       \/ (r.pc = "done" /\ r.exec.kind = "none")
    THEN "NoCall"
    ELSE IF r.pc = "done"
    THEN (IF r.exec.kind = "return" THEN "Success" ELSE "Failed")
    ELSE IF r.pc = "mar_wait" THEN "Sent"
    ELSE IF r.sent = 0 THEN "NotSent" ELSE "AuthRetry"

SpecTransitions ==
    {<<"NoCall", "NotSent">>, <<"NotSent", "Sent">>, <<"Sent", "Success">>,
     <<"Sent", "Failed">>, <<"Sent", "AuthRetry">>, <<"AuthRetry", "Sent">>,
     <<"Success", "NoCall">>, <<"Failed", "NoCall">>}

TokenFailureTransitions == {<<"NotSent", "Failed">>, <<"AuthRetry", "Failed">>}

Follows(allowed) ==
    \A c \in Callers :
        LET p == Phase(callers[c])
            q == Phase(callers'[c])
        IN  p # q =>
                /\ <<p, q>> \in allowed
                /\ q = "AuthRetry" => (callers[c].refreshes = 0 /\ callers[c].sent = 1)

\* C7 as stated: NotSent -> Sent -> {Success, Failed, AuthRetry},
\* AuthRetry -> Sent -> {Success, Failed}; a call fails only from Sent and
\* AuthRetry is always followed by a second send; at most one AuthRetry.
C7_StateMachine == [][Follows(SpecTransitions)]_vars

\* C7 as amended: the same machine with the two transitions NotSent -> Failed
\* and AuthRetry -> Failed, taken when the token cannot be obtained; Success
\* and Failed are the only terminal states and AuthRetry is entered at most
\* once per call.
C7_StateMachineAmended ==
    [][Follows(SpecTransitions \cup TokenFailureTransitions)]_vars

C7_Witness ==
    \E c \in Callers :
        LET r == callers[c] IN
        /\ Phase(r) = "Failed" /\ r.refreshes = 1 /\ r.sent = 1
        /\ r.statuses = <<401>>

\* C8: every exposed operation ends in a success payload or in one of the
\* module's APIError classes; no other exception crosses its boundary.
C8_OnlyAPIErrors ==
    \A c \in Callers :
        LET r == callers[c] IN
        (r.pc = "done" /\ r.op \in ExposedOperations) =>
            r.result.kind \in {"return"} \cup APIErrorKinds

\* C9: with a token in the slot, get_access_token returns that token, calls
\* neither provider nor broker, and leaves the slot as it was.
C9_CachedTokenNoFetch ==
    \A c \in Callers :
        LET r == callers[c] IN
        (r.op = "get_access_token" /\ r.cache_at_call # None) =>
            /\ r.provider = 0
            /\ r.network = 0
            /\ _cached_access_token = r.cache_at_call
            /\ r.pc = "done" =>
                  (r.result.kind = "return" /\ r.result.token = r.cache_at_call)

C9_Witness ==
    \E c \in Callers :
        LET r == callers[c] IN
        /\ r.op = "get_access_token" /\ r.pc = "done"
        /\ r.cache_at_call \in Tokens /\ r.provider = 0
        /\ r.result.token = r.cache_at_call

\* Caller c takes a step from pc = at.
Leaves(c, at) == callers[c].pc = at /\ callers'[c].pc # at

\* C10: invalidation is idempotent.  The assignment of line 119 empties the
\* slot from any state and raises nothing; after two invalidations in a row
\* the slot is empty, the next get_access_token finds it empty, calls the
\* provider exactly once and stores the token it extracted.
C10_InvalidateIdempotent ==
    [][\A c \in Callers :
          LET r == callers[c]
              q == callers'[c]
          IN  /\ Leaves(c, "rat_clear") =>
                    (_cached_access_token' = None /\ q.pc = "gat_check"
                     /\ q.result.kind = "none")
              /\ clears' = 2 => _cached_access_token' = None
              /\ (clears = 2 /\ Leaves(c, "gat_check")) => q.pc = "gat_fetch"
              /\ Leaves(c, "gat_fetch") =>
                    (q.provider = r.provider + 1 /\ q.pc \in {"gat_store", "done"})
              /\ (Leaves(c, "gat_store") /\ q.pc # "done") =>
                    /\ _cached_access_token' = ExtractAccessToken(r.credentials).value
                    /\ q.provider = r.provider
                    /\ q.pc = "gat_test"
              /\ (Leaves(c, "gat_test") \/ Leaves(c, "gat_return")) =>
                    (q.provider = r.provider /\ q.pc # "gat_fetch"
                     /\ _cached_access_token' = _cached_access_token)
      ]_vars

C10_Witness ==
    \E c \in Callers :
        LET r == callers[c] IN
        /\ clears = 2 /\ r.pc = "gat_store" /\ r.provider = 1
        /\ r.credentials.token \in Tokens

InTokenCode(r) ==
    r.pc \in {"gat_check", "gat_fetch", "gat_store", "gat_test", "gat_return", "rat_clear"}

\* C11 as stated: when the caller of make_api_request supplies its own
\* headers, no token is attached and no JSON Content-Type is set; every
\* request of the call carries the caller's headers unchanged and the call
\* makes no token lookup and no provider call.
C11_CallerHeadersUntouched ==
    \A c \in Callers :
        LET r == callers[c] IN
        (r.op = "make_api_request" /\ r.hdrs # "none") =>
            /\ r.authorization = (IF r.hdrs = "authorization" THEN "caller" ELSE "none")
            /\ r.content_type = "caller"
            /\ r.provider = 0
            /\ ~InTokenCode(r)

\* C11 as amended: headers that carry an Authorization entry are sent
\* unchanged on the first attempt, with no token lookup and no provider call
\* before its response, and the Content-Type is never set; only a 401 on the
\* first attempt with retry_auth makes the call refresh the token and put it
\* in place of the caller's Authorization for the retry.  Headers without an
\* Authorization entry get the cached token and the JSON Content-Type like
\* absent headers.
C11_CallerAuthorizationKept ==
    \A c \in Callers :
        LET r == callers[c] IN
        /\ (r.op = "make_api_request" /\ r.hdrs = "authorization") =>
              /\ r.content_type = "caller"
              /\ r.refreshes = 0 =>
                    (r.authorization = "caller" /\ r.provider = 0 /\ ~InTokenCode(r))
              /\ r.refreshes = 1 =>
                    (r.retry_auth /\ r.statuses # <<>> /\ r.statuses[1] = 401)
              /\ r.sent = 2 => r.authorization = "token"
        /\ (r.op = "make_api_request" /\ r.hdrs = "no_authorization" /\ r.sent >= 1) =>
              (r.authorization = "token" /\ r.content_type = "application/json")

C11_Witness ==
    \E c \in Callers :
        LET r == callers[c] IN
        /\ r.op = "make_api_request" /\ r.hdrs = "authorization" /\ r.pc = "done"
        /\ r.sent = 1 /\ r.exec.kind = "return" /\ r.provider = 0
        /\ r.authorization = "caller"

\* C12: when a wrapper's local check fails (a required argument missing or
\* empty, or value_input_option neither 'RAW' nor 'USER_ENTERED'), the call
\* fails with ValidationError before any I/O: no provider call, no broker
\* request, no request to the target API, and the token slot is unchanged.
C12_ValidationBeforeIO ==
    \A c \in Callers :
        LET r == callers[c] IN
        (r.op \in Wrappers /\ r.args # "valid") =>
            /\ r.pc \in {"validate", "done"}
            /\ r.provider = 0 /\ r.network = 0 /\ r.sent = 0
            /\ _cached_access_token = r.cache_at_call
            /\ r.pc = "done" =>
                  /\ r.result.kind = "ValidationError"
                  /\ r.result.status_code = NoStatus
                  /\ r.exec.kind = "none"

C12_Witness ==
    \E c \in Callers :
        LET r == callers[c] IN
        /\ r.op = "values_update" /\ r.args = "bad_value_input_option"
        /\ r.pc = "done" /\ r.result.kind = "ValidationError" /\ r.sent = 0

\* The call of r ended because a request to the target API failed below
\* HTTP: a request was sent that no response answered.
TransportFailed(r) == r.pc = "done" /\ Len(r.statuses) < r.sent

\* C13: a transport failure of a request to the target API, on the first
\* attempt or on the retry after a 401, makes the call fail with the base
\* GoogleSheetsAPIError carrying no status code, whereas an error derived
\* from an HTTP status always carries that status.
C13_TransportFailureIsBaseError ==
    \A c \in Callers :
        LET r == callers[c] IN
        /\ TransportFailed(r) =>
              (r.exec.kind = "GoogleSheetsAPIError" /\ r.exec.status_code = NoStatus)
        /\ (FinalResponse(r) /\ r.exec.kind \in APIErrorKinds) =>
              (r.exec.status_code = Last(r.statuses) /\ r.exec.status_code # NoStatus)

C13_Witness ==
    \E c \in Callers :
        LET r == callers[c] IN
        /\ TransportFailed(r) /\ r.sent = 2 /\ r.statuses = <<401>>
        /\ r.exec.kind = "GoogleSheetsAPIError" /\ r.exec.status_code = NoStatus

\* The states of the 401-triggered retry of C14.
C14_RetryStates ==
    \A c \in Callers :
        LET r == callers[c] IN
        r.refreshes = 1 =>
            \* the slot is empty when the provider is called and until its
            \* answer is stored
            /\ r.pc \in {"gat_fetch", "gat_store"} => _cached_access_token = None
            \* the retried request carries the token now in the slot
            /\ (r.pc \in {"mar_send", "mar_wait"} \/ (r.pc = "done" /\ r.sent = 2)) =>
                  /\ r.authorization = "token"
                  /\ r.access_token = _cached_access_token
                  /\ Truthy(_cached_access_token)
            \* whatever the second response, the refreshed token stays cached
            /\ (r.pc = "done" /\ r.sent = 2) =>
                  (Len(r.statuses) = 2 => ~SlotEmpty(_cached_access_token))

\* The steps of the 401-triggered retry of C14.
C14_RetrySteps ==
    \A c \in Callers :
        LET r == callers[c]
            q == callers'[c]
        IN  r.refreshes = 1 =>
                /\ Leaves(c, "rat_clear") => _cached_access_token' = None
                /\ Leaves(c, "gat_check") => q.pc = "gat_fetch"
                /\ (Leaves(c, "gat_store") /\ q.pc = "gat_test") =>
                      _cached_access_token' = ExtractAccessToken(r.credentials).value
                /\ (Leaves(c, "gat_test") \/ Leaves(c, "gat_return")
                    \/ Leaves(c, "mar_send") \/ Leaves(c, "mar_wait")) =>
                      _cached_access_token' = _cached_access_token
                /\ Leaves(c, "gat_return") =>
                      (q.access_token = _cached_access_token /\ q.pc = "mar_send")

\* C14: on the retry after a 401 the slot is cleared before the provider is
\* called, the retried request carries the token that provider call returned,
\* and when the call returns, with success or a second 401, the slot holds
\* that token, so the next get_access_token returns it without the provider.
C14_RetryCarriesRefreshedToken == []C14_RetryStates /\ [][C14_RetrySteps]_vars

C14_Witness ==
    \E c \in Callers :
        LET r == callers[c] IN
        /\ r.pc = "done" /\ r.statuses = <<401, 401>> /\ r.cache_at_call = 1
        /\ r.hdrs = "none" /\ r.access_token = 2 /\ _cached_access_token = 2

\* C15: when the first response is 401 and the provider call made by the
\* refresh fails (broker unreachable, timeout, non-success broker status,
\* unreadable body), the make_api_request call ends in AuthenticationError
\* with one request sent to the target API, and the slot is left empty, so the
\* next get_access_token calls the provider again.
C15_RefreshFailureIsAuthenticationError ==
    [][\A c \in Callers :
          LET r == callers[c]
              q == callers'[c]
          IN  (r.op \in ApiOperations /\ r.refreshes = 1 /\ r.statuses = <<401>>
               /\ Leaves(c, "gat_fetch") /\ q.pc = "done")
              => /\ q.exec.kind = "AuthenticationError"
                 /\ q.exec.status_code = NoStatus
                 /\ q.sent = 1 /\ q.statuses = <<401>>
                 /\ q.provider = r.provider + 1
                 /\ _cached_access_token' = None
                 /\ SlotEmpty(_cached_access_token')]_vars

C15_Witness ==
    \E c \in Callers :
        LET r == callers[c] IN
        /\ r.pc = "done" /\ r.op \in ApiOperations /\ r.refreshes = 1
        /\ r.cache_at_call = None /\ r.hdrs = "none"
        /\ r.statuses = <<401>> /\ r.sent = 1
        /\ r.provider = 2 /\ r.network = 2
        /\ r.exec.kind = "AuthenticationError"
        /\ _cached_access_token = None

\* The slot holds nothing or a non-empty token of the provider.
SlotWellFormed == _cached_access_token \in {None} \cup Tokens

\* A get_access_token call that ended in AuthenticationError left the slot
\* empty.
FailedFetchLeavesSlotEmpty ==
    \A c \in Callers :
        LET r == callers[c] IN
        (r.pc = "done" /\ r.op = "get_access_token"
            /\ r.result.kind = "AuthenticationError")
        => _cached_access_token = None

\* No get_access_token call returns an empty or absent token.
NoEmptyTokenReturned ==
    \A c \in Callers :
        LET r == callers[c] IN
        (r.pc = "done" /\ r.op = "get_access_token" /\ r.result.kind = "return")
        => Truthy(r.result.token)

\* C16: in every reachable state the slot is empty or holds a non-empty token
\* returned by a provider call; a get_access_token call that fails with
\* AuthenticationError, the broker's body with an absent or empty
\* credentials.access_token included, leaves the slot empty; and no
\* get_access_token call returns an empty or absent token as a success.
C16_SlotEmptyOrToken ==
    /\ SlotWellFormed
    /\ FailedFetchLeavesSlotEmpty
    /\ NoEmptyTokenReturned

====
